---- MODULE Spec2Model ----
(***************************************************************************)
(* Model of the three data-reshaping scripts of the repository:            *)
(*   HistoricalPrice.py         consolidated workflow (series payloads)    *)
(*   HistoricalStats.py         unpivoted stats workflow                   *)
(*   HistoricalStatsPivoted.py  pivoted stats workflow                     *)
(*                                                                         *)
(* Encoding.  Symbols, dates and attributes are numbered in the order in   *)
(* which their strings sort, so that the sorted group-by, pivot and merge  *)
(* of pandas can be computed.  A cell value is a pair <<n, d>>: the        *)
(* rational n/d in lowest terms, or Null = <<0, 0>> for None/NaN/empty.    *)
(* A table is [header |-> column names, rows |-> sequence of rows].        *)
(***************************************************************************)
EXTENDS Integers, Sequences, FiniteSets, TLC

VARIABLES workflow,   \* which script runs
          pc,         \* position of the script
          i,          \* index of the symbol being processed
          j,          \* index of the stat-type being processed
          all_data,   \* process_symbols: the accumulating list of records
          artifact,   \* the output workbook on disk (its named sheet)
          lastItem,   \* the last payload fetched and what was made of it
          sink,       \* the last sink operation: table handed over, outcome
          abortCause, \* the exception that ended the script, if any
          pivotSource \* what pivot_stock_data read

vars == <<workflow, pc, i, j, all_data, artifact, lastItem, sink, abortCause,
          pivotSource>>

----------------------------------------------------------------------------
(* Bounds of the model *)

NumSymbols == 2     \* symbols in the list handed to a workflow
NumStatTypes == 2   \* stat-types fetched per symbol (a prefix of STAT_TYPES)
MaxDatasets == 2    \* datasets of a series payload
MaxValues == 2      \* rows in one dataset's values
MaxRows == 3        \* rows of a LongTable handed to the pivot pass

STAT_TYPES == <<"quarter_results", "yoy_results", "balancesheet", "cashflow",
                "ratios", "shareholding_pattern_quarterly",
                "shareholding_pattern_yearly">>

\* names of the numbered attributes / dataset labels, in sorted order
AttrNames == <<"eps", "pe", "roe", "sales">>
Labels == <<"DMA50", "Price", "Volume", "Yield">>

----------------------------------------------------------------------------
(* Cell values *)

Null == <<0, 0>>
Num(n) == <<n, 1>>
IsNull(v) == v[2] = 0

RECURSIVE GCD(_, _)
GCD(a, b) == IF b = 0 THEN a ELSE GCD(b, a % b)

Rat(n, d) == LET g == GCD(n, d) IN <<n \div g, d \div g>>

RatAdd(a, b) == Rat(a[1] * b[2] + b[1] * a[2], a[2] * b[2])

RECURSIVE SumSeq(_)
SumSeq(s) == IF s = <<>> THEN Num(0) ELSE RatAdd(s[1], SumSeq(Tail(s)))

NotNullV(v) == ~IsNull(v)

\* a different reducer: agg({"Value": "count"})
Mean_count(vals) == Num(Len(SelectSeq(vals, NotNullV)))

\* pandas "mean": nulls are skipped; a group of nulls only gives null
Mean(vals) ==
  LET nn == SelectSeq(vals, NotNullV)
  IN  IF nn = <<>> THEN Null
      ELSE LET t == SumSeq(nn) IN Rat(t[1], t[2] * Len(nn))

----------------------------------------------------------------------------
(* Generic sequence helpers *)

Range(s) == {s[k] : k \in DOMAIN s}

RECURSIVE Flatten(_)
Flatten(ss) == IF ss = <<>> THEN <<>> ELSE ss[1] \o Flatten(Tail(ss))

\* lexicographic order on tuples of integers of equal length
RECURSIVE TupleLess(_, _)
TupleLess(a, b) ==
  IF a = <<>> THEN FALSE
  ELSE IF a[1] # b[1] THEN a[1] < b[1]
  ELSE TupleLess(Tail(a), Tail(b))

RECURSIVE SortTuples(_)
SortTuples(S) ==
  IF S = {} THEN <<>>
  ELSE LET m == CHOOSE x \in S : \A y \in S \ {x} : TupleLess(x, y)
       IN  <<m>> \o SortTuples(S \ {m})

RECURSIVE SortInts(_)
SortInts(S) ==
  IF S = {} THEN <<>>
  ELSE LET m == CHOOSE x \in S : \A y \in S : x <= y
       IN  <<m>> \o SortInts(S \ {m})

Nulls(n) == [k \in 1..n |-> Null]

EmptyTable == [header |-> <<>>, rows |-> <<>>]

SameTable(a, b) == a.header = b.header /\ a.rows = b.rows


----------------------------------------------------------------------------
(* The output workbook and the two ways of writing its sheet *)

Absent == [exists |-> FALSE, writer |-> "none", header |-> <<>>, rows |-> <<>>]

File(table, who) ==
  [exists |-> TRUE, writer |-> who, header |-> table.header, rows |-> table.rows]

\* what the environment does to a sink operation
IoOutcomes == {"ok", "remove_fails", "write_fails"}

\* df.to_excel(writer, sheet_name, index=False): header row, then the rows;
\* None/NaN is written as an empty cell
to_excel(table) == [header |-> table.header, rows |-> table.rows]

\* pd.read_excel(path, sheet_name): first row is the header; an empty cell
\* is read as NaN
read_excel(file) == [header |-> file.header, rows |-> file.rows]

\* the old file is kept and the new rows are added below the old ones
DeleteThenWrite_append(file, table, io) ==
  IF io # "ok" THEN [file |-> file, outcome |-> "error"]
  ELSE IF file.exists
    THEN [file |-> [exists |-> TRUE, writer |-> "this", header |-> table.header,
                    rows |-> file.rows \o table.rows],
          outcome |-> "written"]
  ELSE [file |-> File(to_excel(table), "this"), outcome |-> "written"]

\* try: if exists: os.remove;  with ExcelWriter(path): to_excel
\* except Exception: print.   Result: the file afterwards and what happened.
DeleteThenWrite(file, table, io) ==
  IF file.exists /\ io = "remove_fails"
    THEN [file |-> file, outcome |-> "error"]
  ELSE IF io = "write_fails"
    THEN [file |-> Absent, outcome |-> "error"]
  ELSE [file |-> File(to_excel(table), "this"), outcome |-> "written"]

\* with ExcelWriter(path, mode='a', if_sheet_exists='replace'): to_excel
ReplaceSheet(file, table) == File(to_excel(table), "this")

----------------------------------------------------------------------------
(* HistoricalPrice.py: building the consolidated table *)

\* columns = ['Date'] + [f'{label} {i}' for i in range(1, len(example_entry))]
Columns(dataset) ==
  LET example_entry == dataset.values[1]
  IN  <<"Date">> \o [k \in 1..(Len(example_entry) - 1) |->
                        dataset.label \o " " \o ToString(k)]

DataFrame(dataset) == [header |-> Columns(dataset), rows |-> dataset.values]

DatesOf(rows) == {rows[k][1] : k \in DOMAIN rows}

\* how='inner': only the dates both sides have
merge_inner(left, right) ==
  LET keys == SortInts(DatesOf(left.rows) \cap DatesOf(right.rows))
      Block(d) ==
        LET L == SelectSeq(left.rows, LAMBDA r : r[1] = d)
            R == SelectSeq(right.rows, LAMBDA r : r[1] = d)
        IN  Flatten([a \in 1..Len(L) |->
                       [b \in 1..Len(R) |-> L[a] \o Tail(R[b])]])
  IN  [header |-> left.header \o Tail(right.header),
       rows |-> Flatten([n \in 1..Len(keys) |-> Block(keys[n])])]

\* pd.merge(left, right, on='Date', how='outer'): keys of both sides, sorted;
\* rows with the same key are paired, a key of one side only is padded
merge(left, right) ==
  LET keys == SortInts(DatesOf(left.rows) \cup DatesOf(right.rows))
      lw == Len(left.header) - 1
      rw == Len(right.header) - 1
      LRows(d) == SelectSeq(left.rows, LAMBDA r : r[1] = d)
      RRows(d) == SelectSeq(right.rows, LAMBDA r : r[1] = d)
      Block(d) ==
        LET L == LRows(d)
            R == RRows(d)
        IN  IF L = <<>> THEN [m \in 1..Len(R) |-> <<d>> \o Nulls(lw) \o Tail(R[m])]
            ELSE IF R = <<>> THEN [m \in 1..Len(L) |-> L[m] \o Nulls(rw)]
            ELSE Flatten([a \in 1..Len(L) |->
                            [b \in 1..Len(R) |-> L[a] \o Tail(R[b])]])
  IN  [header |-> left.header \o Tail(right.header),
       rows |-> Flatten([n \in 1..Len(keys) |-> Block(keys[n])])]

\* the loop over data['datasets'], consolidated_df being the accumulator
RECURSIVE MergeDatasets(_, _)
MergeDatasets(consolidated_df, datasets) ==
  IF datasets = <<>> THEN consolidated_df
  ELSE LET dataset == Head(datasets)
       IN  IF dataset.values = <<>>
             THEN MergeDatasets(consolidated_df, Tail(datasets))
           ELSE LET df == DataFrame(dataset)
                IN  MergeDatasets(IF consolidated_df.rows = <<>> THEN df
                                  ELSE merge(consolidated_df, df),
                                  Tail(datasets))

\* consolidated_df['Symbol'] = symbol
ConsolidatedTable(datasets, symbol) ==
  LET df == MergeDatasets(EmptyTable, datasets)
  IN  [header |-> df.header \o <<"Symbol">>,
       rows |-> [k \in DOMAIN df.rows |-> df.rows[k] \o <<symbol>>]]

\* if data:
Truthy(resp) == resp.kind # "empty_object"

\* only: 'datasets' not in data
NoDatasets_key_only(resp) == resp.kind = "no_datasets"

\* 'datasets' not in data or not data['datasets']
NoDatasets(resp) == resp.kind \in {"no_datasets", "empty_datasets"}


----------------------------------------------------------------------------
(* HistoricalStats.py / HistoricalStatsPivoted.py: records and the pivot *)

LongHeader == <<"Symbol", "Date", "Attribute", "Value">>

\* try: json.loads(...)  except JSONDecodeError: return None
fetch_historical_stats(resp) ==
  IF resp.kind \in {"decode_error", "null"}
    THEN [kind |-> "none", body |-> <<>>]
  ELSE [kind |-> resp.kind, body |-> resp.body]

\* leaves whose value is null are left out
process_data_skip_null(symbol, stat_type, data) ==
  IF data.kind = "none" \/ data.body = <<>> THEN <<>>
  ELSE Flatten([a \in 1..Len(data.body) |->
         LET kept == SelectSeq(data.body[a][2], LAMBDA e : ~IsNull(e[2]))
         IN  [d \in 1..Len(kept) |->
                <<symbol, kept[d][1], data.body[a][1], kept[d][2]>>]])

\* a payload body is the parsed object in key order:
\*   << <<attribute, << <<date, value>>, ... >> >>, ... >>
process_data(symbol, stat_type, data) ==
  IF data.kind = "none" \/ data.body = <<>> THEN <<>>
  ELSE Flatten([a \in 1..Len(data.body) |->
         LET attribute == data.body[a][1]
             values == data.body[a][2]
         IN  [d \in 1..Len(values) |->
                <<symbol, values[d][1], attribute, values[d][2]>>]])

\* pd.DataFrame(data, columns=["Symbol", "Date", "Attribute", "Value"])
LongFrame(data) == [header |-> LongHeader, rows |-> data]

\* df.drop_duplicates(): the first of equal rows is kept
RECURSIVE drop_duplicates(_)
drop_duplicates(rows) ==
  IF rows = <<>> THEN <<>>
  ELSE LET front == SubSeq(rows, 1, Len(rows) - 1)
           last == rows[Len(rows)]
       IN  IF last \in Range(front) THEN drop_duplicates(front)
           ELSE Append(drop_duplicates(front), last)

KeyOf(r) == <<r[1], r[2], r[3]>>

KeysOf(rows) == {KeyOf(rows[k]) : k \in DOMAIN rows}

ValuesAt(rows, key) ==
  LET at == SelectSeq(rows, LAMBDA r : KeyOf(r) = key)
  IN  [k \in DOMAIN at |-> at[k][4]]

\* df.groupby(["Symbol", "Date", "Attribute"], as_index=False)
\*   .agg({"Value": "mean"}): one row per key, keys sorted
groupby_mean(rows) ==
  LET keys == SortTuples(KeysOf(rows))
  IN  [n \in DOMAIN keys |-> keys[n] \o <<Mean(ValuesAt(rows, keys[n]))>>]

\* the group-by without the drop_duplicates before it
Aggregate_no_dedup(rows) == groupby_mean(rows)

\* df.drop_duplicates() then the group-by mean
Aggregate(rows) == groupby_mean(drop_duplicates(rows))

\* pivot_table(..., fill_value=0): a missing cell becomes 0
pivot_fill_zero(rows) ==
  LET index == SortTuples({<<rows[k][1], rows[k][2]>> : k \in DOMAIN rows})
      columns == SortInts({rows[k][3] : k \in DOMAIN rows})
      Cell(ix, c) ==
        LET at == ValuesAt(rows, ix \o <<c>>)
        IN  IF at = <<>> \/ IsNull(at[1]) THEN Num(0) ELSE at[1]
  IN  [header |-> <<"Symbol", "Date">> \o
                  [c \in DOMAIN columns |-> AttrNames[columns[c]]],
       rows |-> [n \in DOMAIN index |->
                   index[n] \o [c \in DOMAIN columns |-> Cell(index[n], columns[c])]]]

\* df.pivot(index=["Symbol", "Date"], columns="Attribute", values="Value")
\*   .reset_index(): one row per (Symbol, Date), one column per attribute
pivot(rows) ==
  LET index == SortTuples({<<rows[k][1], rows[k][2]>> : k \in DOMAIN rows})
      columns == SortInts({rows[k][3] : k \in DOMAIN rows})
      Cell(ix, c) ==
        LET at == ValuesAt(rows, ix \o <<c>>)
        IN  IF at = <<>> THEN Null ELSE at[1]
  IN  [header |-> <<"Symbol", "Date">> \o
                  [c \in DOMAIN columns |-> AttrNames[columns[c]]],
       rows |-> [n \in DOMAIN index |->
                   index[n] \o [c \in DOMAIN columns |-> Cell(index[n], columns[c])]]]

\* required_columns.issubset(df.columns)
HasRequiredColumns(df) == Range(LongHeader) \subseteq Range(df.header)


----------------------------------------------------------------------------
(* Inputs: what the API answers and what an earlier run left on disk *)

Response(kind, body) == [kind |-> kind, body |-> body]

Row(d) == <<d, Num(100 + d)>>

\* series payloads used in the workflow runs
SampleSeries ==
  { << [label |-> "Price", values |-> <<Row(1), Row(2)>>] >>,
    << [label |-> "Price", values |-> <<Row(1)>>],
       [label |-> "Volume", values |-> <<Row(1), Row(2)>>] >>,
    << [label |-> "Price", values |-> <<>>] >> }

PriceSamples ==
  {Response(k, <<>>) :
     k \in {"decode_error", "empty_object", "no_datasets", "empty_datasets"}}
  \cup {Response("series", b) : b \in SampleSeries}

\* every series payload within the bounds: dataset k is labelled Labels[k]
\* and lists up to MaxValues rows over the dates of SeriesDates
SeriesDates == {1, 2}

SeriesRows == {Row(d) : d \in SeriesDates}

ValueLists == UNION {[1..n -> SeriesRows] : n \in 0..MaxValues}

SeriesBodies ==
  UNION {{[k \in 1..n |-> [label |-> Labels[k], values |-> f[k]]] :
            f \in [1..n -> ValueLists]} : n \in 1..MaxDatasets}

AllSeries == {Response("series", b) : b \in SeriesBodies}

\* attribute payloads used in the workflow runs
PayloadA == << <<1, << <<1, Num(10)>>, <<2, Num(20)>> >> >>,
               <<2, << <<1, Null>> >> >> >>

StatsSamples ==
  {Response(k, <<>>) : k \in {"decode_error", "null", "object", "bad_shape"}}
  \cup {Response("object", PayloadA)}

\* the records of an earlier run
StaleRecords == << <<1, 1, 1, Num(5)>>, <<1, 1, 2, Num(7)>> >>

StaleSeries == << [label |-> "Price", values |-> <<Row(0)>>] >>

PriorKinds(w) ==
  IF w = "pivoted" THEN {"absent", "long", "wide"}
  ELSE IF w = "unpivoted" THEN {"absent", "long"}
  ELSE {"absent", "consolidated"}

PriorFile(kind) ==
  IF kind = "long" THEN File(LongFrame(StaleRecords), "prev")
  ELSE IF kind = "wide" THEN File(pivot(Aggregate(StaleRecords)), "prev")
  ELSE IF kind = "consolidated" THEN File(ConsolidatedTable(StaleSeries, 1), "prev")
  ELSE Absent

NoItem == [symbol |-> 0, stat |-> "", kind |-> "none", body |-> <<>>,
           records |-> <<>>]

NoSink == [op |-> "none", outcome |-> "none", symbol |-> 0, table |-> EmptyTable]

NotRead == [read |-> FALSE, writer |-> "none", header |-> <<>>]

----------------------------------------------------------------------------
(* The scripts *)

InitAt(w, position, symbolIndex, statIndex, file) ==
  /\ workflow = w
  /\ pc = position
  /\ i = symbolIndex
  /\ j = statIndex
  /\ all_data = <<>>
  /\ artifact = file
  /\ lastItem = NoItem
  /\ sink = NoSink
  /\ abortCause = "none"
  /\ pivotSource = NotRead

Init ==
  \E w \in {"consolidated", "unpivoted", "pivoted"} :
    \E kind \in PriorKinds(w) :
      InitAt(w, IF w = "consolidated" THEN "start" ELSE "loop", 1, 1,
             PriorFile(kind))

\* process_all_symbols up to its loop: the two configuration checks
process_all_symbols ==
  /\ workflow = "consolidated"
  /\ pc = "start"
  /\ \E table \in {"ok", "missing_file", "missing_column"} :
       pc' = IF table = "ok" THEN "loop" ELSE "done"
  /\ UNCHANGED <<workflow, i, j, all_data, artifact, lastItem, sink,
                 abortCause, pivotSource>>

\* one iteration of the loop of process_all_symbols:
\* get_stock_data_to_excel -> fetch_stock_data, save_to_excel_consolidated
get_stock_data_to_excel(responses) ==
  /\ workflow = "consolidated"
  /\ pc = "loop"
  /\ \E resp \in responses, io \in IoOutcomes :
       LET symbol == i
           item == [symbol |-> symbol, stat |-> "", kind |-> resp.kind,
                    body |-> resp.body, records |-> <<>>]
       IN
       /\ lastItem' = item
       /\ IF resp.kind = "decode_error"
            THEN \* json.loads raises; nothing up the call chain catches it
                 /\ io = "ok"
                 /\ pc' = "aborted"
                 /\ abortCause' = "JSONDecodeError"
                 /\ UNCHANGED <<i, artifact, sink>>
          ELSE IF ~Truthy(resp) \/ NoDatasets(resp)
            THEN \* "Failed to fetch data" / "No data found ... Skipping"
                 /\ io = "ok"
                 /\ pc' = IF i = NumSymbols THEN "done" ELSE "loop"
                 /\ i' = i + 1
                 /\ UNCHANGED <<artifact, sink, abortCause>>
          ELSE LET consolidated_df == ConsolidatedTable(resp.body, symbol)
                   res == DeleteThenWrite(artifact, consolidated_df, io)
               IN  /\ io = "remove_fails" => artifact.exists
                   /\ artifact' = res.file
                   /\ sink' = [op |-> "save_to_excel_consolidated",
                               outcome |-> res.outcome,
                               symbol |-> symbol,
                               table |-> consolidated_df]
                   /\ pc' = IF i = NumSymbols THEN "done" ELSE "loop"
                   /\ i' = i + 1
                   /\ UNCHANGED abortCause
  /\ UNCHANGED <<workflow, j, all_data, pivotSource>>

\* one iteration of the loops of process_symbols; the last one goes on to
\* the save that ends process_symbols
process_symbols(responses) ==
  /\ workflow \in {"unpivoted", "pivoted"}
  /\ pc = "loop"
  /\ \E resp \in responses, io \in IoOutcomes :
       LET symbol == i
           stat_type == j
           data == fetch_historical_stats(resp)
           final == (i = NumSymbols /\ j = NumStatTypes)
       IN
       IF data.kind = "bad_shape"
         THEN \* values.items() raises AttributeError inside process_data
              /\ io = "ok"
              /\ lastItem' = [symbol |-> symbol, stat |-> STAT_TYPES[stat_type],
                              kind |-> resp.kind, body |-> resp.body,
                              records |-> <<>>]
              /\ pc' = "aborted"
              /\ abortCause' = "AttributeError"
              /\ UNCHANGED <<i, j, all_data, artifact, sink>>
       ELSE LET records == process_data(symbol, stat_type, data)
                extended == all_data \o records
                res == DeleteThenWrite(artifact, LongFrame(extended), io)
            IN  /\ lastItem' = [symbol |-> symbol, stat |-> STAT_TYPES[stat_type],
                                kind |-> resp.kind, body |-> resp.body,
                                records |-> records]
                /\ all_data' = extended
                /\ UNCHANGED abortCause
                /\ IF ~final
                     THEN /\ io = "ok"
                          /\ j' = IF j = NumStatTypes THEN 1 ELSE j + 1
                          /\ i' = IF j = NumStatTypes THEN i + 1 ELSE i
                          /\ UNCHANGED <<pc, artifact, sink>>
                   ELSE /\ pc' = IF workflow = "pivoted" THEN "pivot" ELSE "done"
                        /\ UNCHANGED <<i, j>>
                        /\ IF extended # <<>>
                             THEN /\ io = "remove_fails" => artifact.exists
                                  /\ artifact' = res.file
                                  /\ sink' = [op |-> "save_to_excel",
                                              outcome |-> res.outcome,
                                              symbol |-> 0,
                                              table |-> LongFrame(extended)]
                             ELSE \* "No data to save."
                                  /\ io = "ok"
                                  /\ UNCHANGED <<artifact, sink>>
  /\ UNCHANGED <<workflow, pivotSource>>

\* pivot_stock_data, called after process_symbols by the pivoted script
pivot_stock_data ==
  /\ workflow = "pivoted"
  /\ pc = "pivot"
  /\ \E io \in {"ok", "write_fails"} :
       IF ~artifact.exists
         THEN \* pd.read_excel raises FileNotFoundError
              /\ io = "ok"
              /\ pivotSource' = [read |-> TRUE, writer |-> "none", header |-> <<>>]
              /\ pc' = "aborted"
              /\ abortCause' = "FileNotFoundError"
              /\ UNCHANGED <<artifact, sink>>
       ELSE LET df == read_excel(artifact)
            IN  /\ pivotSource' = [read |-> TRUE, writer |-> artifact.writer,
                                   header |-> df.header]
                /\ IF ~HasRequiredColumns(df)
                     THEN \* "Error: Missing required columns"; return
                          /\ io = "ok"
                          /\ pc' = "done"
                          /\ sink' = [op |-> "pivot_stock_data",
                                      outcome |-> "early_return", symbol |-> 0,
                                      table |-> EmptyTable]
                          /\ UNCHANGED <<artifact, abortCause>>
                   ELSE LET df_pivot == pivot(Aggregate(df.rows))
                        IN  IF io = "ok"
                              THEN /\ artifact' = ReplaceSheet(artifact, df_pivot)
                                   /\ sink' = [op |-> "pivot_stock_data",
                                               outcome |-> "written", symbol |-> 0,
                                               table |-> df_pivot]
                                   /\ pc' = "done"
                                   /\ UNCHANGED abortCause
                              ELSE \* the writer raises; nothing catches it
                                   /\ sink' = [op |-> "pivot_stock_data",
                                               outcome |-> "raised", symbol |-> 0,
                                               table |-> df_pivot]
                                   /\ pc' = "aborted"
                                   /\ abortCause' = "OSError"
                                   /\ UNCHANGED artifact
  /\ UNCHANGED <<workflow, i, j, all_data, lastItem>>

PriceStep == get_stock_data_to_excel(PriceSamples)

StatsStep == process_symbols(StatsSamples)

Next ==
  \/ process_all_symbols
  \/ PriceStep
  \/ StatsStep
  \/ pivot_stock_data

Spec == Init /\ [][Next]_vars


----------------------------------------------------------------------------
(* The last iteration of the symbol loop of the consolidated workflow, for *)
(* every series payload within the bounds                                  *)

InitMerge ==
  \E kind \in PriorKinds("consolidated") :
    InitAt("consolidated", "loop", NumSymbols, 1, PriorFile(kind))

MergeStep == get_stock_data_to_excel(AllSeries)

SpecMerge == InitMerge /\ [][MergeStep]_vars

(* The pivot pass of the pivoted workflow, for every LongTable within the  *)
(* bounds that process_symbols has just written                            *)

TableKeys == {<<1, 1>>, <<2, 2>>}

TableAttributes == {1, 2}

TableValues == {Num(5), Num(8), Null}

FlatRecords ==
  {k \o <<a, v>> : k \in TableKeys, a \in TableAttributes, v \in TableValues}

\* process_symbols appends symbol after symbol
SymbolOrdered(T) == \A k \in 1..(Len(T) - 1) : T[k][1] <= T[k + 1][1]

LongTables ==
  {T \in UNION {[1..n -> FlatRecords] : n \in 1..MaxRows} : SymbolOrdered(T)}

InitTable ==
  \E T \in LongTables :
    /\ workflow = "pivoted"
    /\ pc = "pivot"
    /\ i = NumSymbols
    /\ j = NumStatTypes
    /\ all_data = T
    /\ artifact = File(to_excel(LongFrame(T)), "this")
    /\ lastItem = NoItem
    /\ sink = [op |-> "save_to_excel", outcome |-> "written", symbol |-> 0,
               table |-> LongFrame(T)]
    /\ abortCause = "none"
    /\ pivotSource = NotRead

SpecTable == InitTable /\ [][pivot_stock_data]_vars


----------------------------------------------------------------------------
(* Vocabulary of the properties *)

SameFile(a, b) ==
  a.exists = b.exists /\ a.writer = b.writer /\ SameTable(a, b)

\* the sheet holds exactly `table`, written by this run
SheetIs(table) ==
  /\ artifact.exists
  /\ artifact.writer = "this"
  /\ SameTable(read_excel(artifact), table)

StatsRun == workflow \in {"unpivoted", "pivoted"}

PivotActed == sink.op = "pivot_stock_data" /\ sink.outcome # "early_return"

\* dates of all datasets of a series payload
AllDates(body) == UNION {DatesOf(body[k].values) : k \in DOMAIN body}

NoRepeatedDate(body) ==
  \A k \in DOMAIN body :
    \A a, b \in DOMAIN body[k].values :
      a # b => body[k].values[a][1] # body[k].values[b][1]

\* (date, value) leaves of an attribute payload, as the records they give
Leaves(symbol, body) ==
  UNION {{<<symbol, body[a][2][d][1], body[a][1], body[a][2][d][2]>> :
            d \in DOMAIN body[a][2]} : a \in DOMAIN body}

RECURSIVE LeafCount(_)
LeafCount(body) ==
  IF body = <<>> THEN 0 ELSE Len(body[1][2]) + LeafCount(Tail(body))

\* the distinct non-null values a table reports for a key
DistinctValues(rows, key) ==
  {rows[k][4] : k \in {n \in DOMAIN rows : KeyOf(rows[n]) = key}} \ {Null}

RECURSIVE SetSum(_)
SetSum(S) ==
  IF S = {} THEN Num(0)
  ELSE LET v == CHOOSE x \in S : TRUE IN RatAdd(v, SetSum(S \ {v}))

ArithmeticMean(S) ==
  IF S = {} THEN Null
  ELSE LET t == SetSum(S) IN Rat(t[1], t[2] * Cardinality(S))

AttrIndex(name) == CHOOSE a \in DOMAIN AttrNames : AttrNames[a] = name

\* the cell of a wide table for a (Symbol, Date, Attribute) key
WideCell(table, key) ==
  LET n == CHOOSE m \in DOMAIN table.rows :
             table.rows[m][1] = key[1] /\ table.rows[m][2] = key[2]
      c == CHOOSE x \in DOMAIN table.header :
             table.header[x] = AttrNames[key[3]]
  IN  table.rows[n][c]

\* a wide table flattened back to keys, null cells dropped
FlattenKeys(table) ==
  LET cells == {<<n, c>> : n \in DOMAIN table.rows, c \in 3..Len(table.header)}
      kept == {q \in cells : ~IsNull(table.rows[q[1]][q[2]])}
  IN  {<<table.rows[q[1]][1], table.rows[q[1]][2], AttrIndex(table.header[q[2]])>> :
         q \in kept}

----------------------------------------------------------------------------
(* Properties *)

\* C1: a per-item failure (payload that fails to decode, is null or empty, or
\* is otherwise bad) never ends the batch: the script is never stopped by an
\* exception raised while fetching or normalising one item.
C1_ItemFailureNeverEndsBatch ==
  abortCause \notin {"JSONDecodeError", "AttributeError"}

C3_PivotReadsThisRunsLongTable ==
  pivotSource.read =>
    pivotSource.writer = "this" /\ pivotSource.header = LongHeader

\* C4 as stated: the consolidated table of any series payload has as many
\* rows as there are distinct dates in its datasets.
C4_RowPerDistinctDate ==
  sink.op = "save_to_excel_consolidated" =>
    Len(sink.table.rows) = Cardinality(AllDates(lastItem.body))

\* C4 amended: no date is ever dropped, and when no dataset lists a date
\* twice the table has exactly one row per distinct date.
C4_RowPerDistinctDateNoRepeats ==
  sink.op = "save_to_excel_consolidated" =>
    /\ DatesOf(sink.table.rows) = AllDates(lastItem.body)
    /\ NoRepeatedDate(lastItem.body) =>
         Len(sink.table.rows) = Cardinality(AllDates(lastItem.body))

C4_Witness ==
  /\ sink.op = "save_to_excel_consolidated"
  /\ Len(lastItem.body) >= 2
  /\ NoRepeatedDate(lastItem.body)
  /\ DatesOf(lastItem.body[1].values) = {1}
  /\ DatesOf(lastItem.body[2].values) = {1, 2}
  /\ Len(sink.table.rows) = 2

\* C5: the aggregation of the pivot pass gives exactly one row per distinct
\* (Symbol, Date, Attribute) key of the table read, whose Value is the
\* arithmetic mean of the distinct values reported for the key; the pivoted
\* table carries that value in the key's cell.
C5_OneRowPerKeyWithMean ==
  PivotActed =>
    LET out == Aggregate(all_data)
    IN  /\ Len(out) = Cardinality(KeysOf(all_data))
        /\ KeysOf(out) = KeysOf(all_data)
        /\ \A n \in DOMAIN out :
             out[n][4] = ArithmeticMean(DistinctValues(all_data, KeyOf(out[n])))
        /\ \A key \in KeysOf(all_data) :
             WideCell(sink.table, key) =
               ArithmeticMean(DistinctValues(all_data, key))

C5_Witness ==
  /\ PivotActed
  /\ Len(all_data) = 3
  /\ Cardinality(KeysOf(all_data)) = 1
  /\ DistinctValues(all_data, KeyOf(all_data[1])) = {Num(5), Num(8)}
  /\ all_data[1] = all_data[2]

\* C6 as stated: the pivoted table, flattened back with null cells dropped,
\* has exactly the keys of the aggregated long table.
C6_RoundTripKeys ==
  PivotActed => FlattenKeys(sink.table) = KeysOf(Aggregate(all_data))

\* C6 amended: the flattened pivot has exactly the keys of the aggregated
\* long table whose Value is not null: no key is added, and a key is lost
\* exactly when its aggregated Value is null.
C6_RoundTripNonNullKeys ==
  PivotActed =>
    LET out == Aggregate(all_data)
    IN  FlattenKeys(sink.table) =
          {KeyOf(out[n]) : n \in {m \in DOMAIN out : ~IsNull(out[m][4])}}

C6_Witness ==
  /\ PivotActed
  /\ sink.outcome = "written"
  /\ \E n \in DOMAIN all_data : IsNull(all_data[n][4])
  /\ Cardinality(FlattenKeys(sink.table)) = 2
  /\ Cardinality(KeysOf(all_data)) = 3

\* C7: process_data gives exactly one record per (date, value) leaf of the
\* payload, with the symbol and the attribute name unchanged, and the long
\* table of process_symbols is the concatenation of these lists, which is
\* what it writes.
C7_RecordPerLeaf ==
  /\ [](StatsRun /\ lastItem.kind = "object" =>
          /\ Len(lastItem.records) = LeafCount(lastItem.body)
          /\ Range(lastItem.records) = Leaves(lastItem.symbol, lastItem.body))
  /\ [](sink.op = "save_to_excel" => sink.table.rows = all_data)
  /\ [][StatsRun /\ pc = "loop" /\ pc' # "aborted" =>
          all_data' = all_data \o lastItem'.records]_vars

C7_Witness ==
  /\ StatsRun
  /\ lastItem.kind = "object"
  /\ Len(lastItem.records) = 3
  /\ Len(all_data) = 6
  /\ sink.op = "save_to_excel"

\* C8: in the consolidated workflow a symbol whose payload has no datasets
\* key or an empty datasets list is skipped without raising: the artifact is
\* neither deleted nor written and the loop goes on to the next symbol.
C8_NoDataIsSkipped ==
  [][workflow = "consolidated" /\ pc = "loop"
       /\ lastItem'.kind \in {"empty_object", "no_datasets", "empty_datasets"} =>
          /\ SameFile(artifact', artifact)
          /\ sink' = sink
          /\ abortCause' = "none"
          /\ i' = i + 1
          /\ pc' = IF i = NumSymbols THEN "done" ELSE "loop"]_vars

C8_Witness ==
  /\ workflow = "consolidated"
  /\ lastItem.kind = "empty_datasets"
  /\ lastItem.symbol = 1
  /\ pc = "loop"
  /\ i = 2
  /\ artifact.exists
  /\ sink.op = "none"

\* C9: aggregating the output of the aggregation again changes nothing.
C9_AggregateIdempotent ==
  PivotActed => Aggregate(Aggregate(all_data)) = Aggregate(all_data)

C9_Witness ==
  /\ PivotActed
  /\ Len(all_data) = 3
  /\ Len(drop_duplicates(all_data)) = 3
  /\ Len(Aggregate(all_data)) = 2
  /\ \E n \in DOMAIN Aggregate(all_data) : Aggregate(all_data)[n][4] = <<13, 2>>

====
